---- MODULE Spec2Model ----
(***************************************************************************)
(* Model of src/src/extension.ts: the Bun debugger auto-attach coordinator. *)
(*                                                                         *)
(* Spec      one coordinator instance (this window) in full: scan cycles,  *)
(*           attach attempts, the host's session events, the lock and      *)
(*           suppression files; a second window appears as an environment  *)
(*           that takes, drops and abandons port locks.                    *)
(* SpecRace  two windows running acquirePortLock / releasePortLock on the  *)
(*           shared lock files, one file-system call per step.             *)
(* SpecLive  the instance with a listener that stays, under fair delivery. *)
(* SpecWalk  belongsToCurrentWindow on arbitrary parent maps, one loop     *)
(*           iteration per step.                                           *)
(***************************************************************************)
EXTENDS Integers, Sequences, FiniteSets, TLC

\* ---------------------------------------------------------------- bounds
MaxTick == 2
MaxCalls == 2
WalkMaxPid == 3

\* ------------------------------------------------------ program constants
DebugPort == 9229
AltPort == 6499
ScanCoalesceMs == 200
CacheFreshMs == 1500
CacheDropMs == 2000
CooldownMs == 800
maxConcurrentAttachments == 2

InitPid == 1
TermPid == 2
SelfPid == 6
OtherPid == 7

Host == "127.0.0.1"
Ports == {DebugPort, AltPort}
\* Target processes of the model: 3 is a child of the window's terminal, 4 a
\* child of 3, 5 belongs to no terminal of this window.
BunPids == {3, 4, 5}
Windows == {SelfPid, OtherPid}
NoFile == 0

\* The clock advances in steps of half a cooldown.
TickMs == CooldownMs \div 2
\* Date.now() at activation lies far beyond every interval the code compares.
Epoch == 10 * ScanCoalesceMs
MaxNow == Epoch + MaxTick * TickMs

VARIABLES
    \* ---- operating system
    now,              \* Date.now()
    alive,            \* live target processes
    listeners,        \* <<pid, port>>: bun listening sockets
    terminalOpen,     \* the window has its terminal open
    otherAlive,       \* the other window's extension host is running
    scenario,         \* the class of environments this behaviour is drawn from
    \* ---- coordination directory (TMP_BASE)
    lock,             \* port -> extensionPid of lock-<port>.json, NoFile if absent
    suppressFiles,    \* <<pid, port>>: suppress-<pid>-<port> exists
    \* ---- module state of this instance
    attachedSessions, sessionPidMap, processCache, suppressed, cooldown,
    inFlight, attachedPids, sessionIdByKey, isScanning, lastScanTime,
    activeAttachments,
    disposed,         \* the dispose handler has run
    scanCtx,          \* the fresh scan in progress (awaiting lsof / ps)
    attempts,         \* attach attempts between launch and their finally block
    \* ---- host debug API
    calls,            \* startDebugging calls: [key, st]; the index is session.id
    stopRequested,    \* session ids passed to stopDebugging
    \* ---- observation
    act,              \* what the last step did at the lock and at the launch
    stoppedAlive,     \* <<pid, port>>: its attached session was ended while the
                      \* process ran, and the process has run ever since
    osSame,           \* nothing outside this instance has changed since its last
                      \* completed scan cycle
    \* ---- SpecRace: each window's position inside acquire / release
    rc,
    \* ---- SpecWalk: the ancestry walk under way
    wk

vars == <<now, alive, listeners, terminalOpen, otherAlive, scenario, lock, suppressFiles,
          attachedSessions, sessionPidMap, processCache, suppressed, cooldown,
          inFlight, attachedPids, sessionIdByKey, isScanning, lastScanTime,
          activeAttachments, disposed, scanCtx, attempts, calls, stopRequested,
          act, stoppedAlive, osSame, rc, wk>>

osVars == <<now, alive, listeners, terminalOpen, otherAlive, scenario>>
memVars == <<attachedSessions, sessionPidMap, processCache, suppressed, cooldown,
             inFlight, attachedPids, sessionIdByKey, isScanning, lastScanTime,
             activeAttachments, disposed, scanCtx, attempts>>
hostVars == <<calls, stopRequested>>
raceVars == <<rc, wk>>
obsVars == <<act, stoppedAlive, osSame>>

\* ------------------------------------------------------------- helpers
KeyOf(host, port) == <<host, port>>
PortOfKey(key) == key[2]
Keys == {KeyOf(Host, p) : p \in Ports}

\* What the last step did at the lock and at the launch of attempts: the
\* <<pid, port>> pairs it took the lock for, was refused the lock for, cut
\* by the concurrency cap, and launched an attempt for, and the kind of scan
\* that supplied them.
NoAct == [kind |-> "none", acq |-> {}, denied |-> {}, cut |-> {}, launched |-> <<>>]

SeqToSet(s) == {s[i] : i \in 1..Len(s)}
RemoveAt(s, i) == [j \in 1..(Len(s) - 1) |-> IF j < i THEN s[j] ELSE s[j + 1]]
Min(a, b) == IF a < b THEN a ELSE b

\* isProcessAlive: process.kill(pid, 0) succeeds for any live process.
isProcessAlive(pid, liveSet) == pid # 0 /\ pid \in liveSet

LivePids == alive \cup {InitPid, SelfPid}
              \cup (IF terminalOpen THEN {TermPid} ELSE {})
              \cup (IF otherAlive THEN {OtherPid} ELSE {})

\* ------------------------------------------------- coordination store
\* acquirePortLock, lines 46-52: the record blocks the caller when it names a
\* live process other than the caller.
LockContended_NoLiveness(data, me, liveSet) ==
    data # NoFile /\ data # me

LockContended(data, me, liveSet) ==
    data # NoFile /\ isProcessAlive(data, liveSet) /\ data # me

\* acquirePortLock as one uninterrupted call: [ret, lock].
acquirePortLock(lk, port, me, liveSet) ==
    IF lk[port] # NoFile /\ LockContended(lk[port], me, liveSet)
    THEN [ret |-> FALSE, lock |-> lk]
    ELSE [ret |-> TRUE, lock |-> [lk EXCEPT ![port] = me]]

\* releasePortLock, line 66: the record names the caller.
OwnsRecord(data, me) == data = me

\* releasePortLock as one uninterrupted call: the lock files after it.
releasePortLock(lk, port, me) ==
    IF lk[port] # NoFile /\ OwnsRecord(lk[port], me)
    THEN [lk EXCEPT ![port] = NoFile]
    ELSE lk

\* markSuppressed: [suppressed, files] after it.
markSuppressed(pid, port, sup, files) ==
    [suppressed |-> sup \cup {<<pid, port>>}, files |-> files \cup {<<pid, port>>}]

\* isSuppressed: [ret, suppressed, files].
isSuppressed(pid, port, sup, files, liveSet) ==
    IF <<pid, port>> \in sup
    THEN [ret |-> TRUE, suppressed |-> sup, files |-> files]
    ELSE IF <<pid, port>> \in files
         THEN IF ~isProcessAlive(pid, liveSet)
              THEN [ret |-> FALSE, suppressed |-> sup \ {<<pid, port>>},
                    files |-> files \ {<<pid, port>>}]
              ELSE [ret |-> TRUE, suppressed |-> sup \cup {<<pid, port>>},
                    files |-> files]
         ELSE [ret |-> FALSE, suppressed |-> sup, files |-> files]

\* ------------------------------------------------------------ scanner
\* getCurrentWindowTerminalPids: the window has at most its one terminal.
getCurrentWindowTerminalPids == IF terminalOpen THEN {TermPid} ELSE {}

\* `ps -Ao pid,ppid`: every live process with its parent; an orphan is
\* re-parented to pid 1.
PsParentMap ==
    [p \in LivePids |->
        CASE p = 3 -> IF terminalOpen THEN TermPid ELSE InitPid
          [] p = 4 -> IF 3 \in alive THEN 3 ELSE InitPid
          [] p = InitPid -> 0
          [] OTHER -> InitPid]

\* `lsof ... | grep bun`: one line per listening socket, by pid.
LsofOrder == << <<3, DebugPort>>, <<3, AltPort>>, <<4, DebugPort>>,
                <<4, AltPort>>, <<5, DebugPort>>, <<5, AltPort>> >>
LsofOut == SelectSeq(LsofOrder, LAMBDA l : l \in listeners)

parentMapGet(parentMap, pid) ==
    IF pid \in DOMAIN parentMap THEN parentMap[pid] ELSE 0

RECURSIVE Walk(_, _, _, _)
Walk(current, visited, terminalPids, parentMap) ==
    IF current # 0 /\ current \notin visited /\ current # 1
    THEN IF current \in terminalPids
         THEN TRUE
         ELSE Walk(parentMapGet(parentMap, current), visited \cup {current},
                   terminalPids, parentMap)
    ELSE FALSE

belongsToCurrentWindow_TerminalOnly(pid, terminalPids, parentMap) ==
    pid \in terminalPids

belongsToCurrentWindow(pid, terminalPids, parentMap) ==
    Walk(pid, {}, terminalPids, parentMap)

isDebuggerPort(port) == port = DebugPort \/ port = AltPort

\* processCache.set(unique, ...): a Map keeps the place of a key it holds.
CacheSet(cache, pid, port, t) ==
    IF \E i \in 1..Len(cache) : cache[i].pid = pid /\ cache[i].port = port
    THEN [i \in 1..Len(cache) |->
            IF cache[i].pid = pid /\ cache[i].port = port
            THEN [pid |-> pid, port |-> port, lastSeen |-> t]
            ELSE cache[i]]
    ELSE Append(cache, [pid |-> pid, port |-> port, lastSeen |-> t])

\* lines 236-238
CacheCleanup(cache, t) ==
    SelectSeq(cache, LAMBDA e : ~(t - e.lastSeen > CacheDropMs))

\* lines 171-173: the coalesced scan's answer.
CachedCandidates(cache, t) ==
    LET fresh == SelectSeq(cache, LAMBDA e : t - e.lastSeen < CacheFreshMs)
    IN  [i \in 1..Len(fresh) |-> [pid |-> fresh[i].pid, port |-> fresh[i].port]]

\* lines 214-233, line by line over the lsof output:
\* [found, seen, suppressed, files, cache].
RECURSIVE ScanLines(_, _, _, _, _, _)
ScanLines(lines, st, terminalPids, parentMap, liveSet, t) ==
    IF lines = <<>> THEN st
    ELSE LET pid == Head(lines)[1]
             port == Head(lines)[2]
             rest == Tail(lines)
         IN  IF ~isDebuggerPort(port)
                \/ ~belongsToCurrentWindow(pid, terminalPids, parentMap)
                \/ <<pid, port>> \in st.seen
             THEN ScanLines(rest, st, terminalPids, parentMap, liveSet, t)
             ELSE LET s == isSuppressed(pid, port, st.suppressed, st.files, liveSet)
                      st1 == [st EXCEPT !.seen = @ \cup {<<pid, port>>},
                                        !.suppressed = s.suppressed,
                                        !.files = s.files]
                  IN  IF s.ret
                      THEN ScanLines(rest, st1, terminalPids, parentMap, liveSet, t)
                      ELSE ScanLines(rest,
                             [st1 EXCEPT !.cache = CacheSet(@, pid, port, t),
                                         !.found = Append(@, [pid |-> pid, port |-> port])],
                             terminalPids, parentMap, liveSet, t)


\* ---------------------------------------------------------- scheduler
\* The filter of tryAttachDebounced up to the lock, lines 259-264.
Eligible_NoInFlightCheck(proc, activeKey, t) ==
    LET key == KeyOf(Host, proc.port)
    IN  /\ key \notin attachedSessions
        /\ activeKey # key
        /\ ~(cooldown[key] # 0 /\ cooldown[key] > t)
        /\ proc.pid \notin attachedPids

Eligible_NoCooldown(proc, activeKey, t) ==
    LET key == KeyOf(Host, proc.port)
    IN  /\ key \notin attachedSessions
        /\ activeKey # key
        /\ proc.pid \notin attachedPids
        /\ key \notin inFlight

Eligible(proc, activeKey, t) ==
    LET key == KeyOf(Host, proc.port)
    IN  /\ key \notin attachedSessions
        /\ activeKey # key
        /\ ~(cooldown[key] # 0 /\ cooldown[key] > t)
        /\ proc.pid \notin attachedPids
        /\ key \notin inFlight

\* The whole filter, candidate by candidate, line 265 included:
\* st = [passed, lock, acq, denied].
RECURSIVE FilterCands(_, _, _, _, _)
FilterCands(cands, st, activeKey, t, liveSet) ==
    IF cands = <<>> THEN st
    ELSE LET proc == Head(cands)
         IN  IF ~Eligible(proc, activeKey, t)
             THEN FilterCands(Tail(cands), st, activeKey, t, liveSet)
             ELSE LET a == acquirePortLock(st.lock, proc.port, SelfPid, liveSet)
                  IN  FilterCands(Tail(cands),
                        [passed |-> IF a.ret THEN Append(st.passed, proc) ELSE st.passed,
                         lock |-> a.lock,
                         acq |-> IF a.ret THEN st.acq \cup {<<proc.pid, proc.port>>}
                                 ELSE st.acq,
                         denied |-> IF a.ret THEN st.denied
                                    ELSE st.denied \cup {<<proc.pid, proc.port>>}],
                        activeKey, t, liveSet)

\* .slice(0, maxConcurrentAttachments - activeAttachments), line 268
SliceEnd_NoCap(passed, active) == Len(passed)

SliceEnd(passed, active) ==
    LET n == maxConcurrentAttachments - active
    IN  IF n >= 0 THEN Min(n, Len(passed))
        ELSE IF Len(passed) + n > 0 THEN Len(passed) + n ELSE 0

NewAttempt(proc) ==
    [pid |-> proc.pid, port |-> proc.port, phase |-> "probing", call |-> 0]

\* The keys the host's active debug session may carry in its name: one of
\* the live sessions has the focus, or none has.
ActiveKeyChoices ==
    {<<>>} \cup {calls[c].key : c \in {i \in 1..Len(calls) : calls[i].st = "live"}}

\* Lines 256-302 up to the first await of each attempt: filter, slice, and
\* the synchronous head of every launched attempt (lines 270-274).
FilterAndLaunch(cands, kind) ==
    \E activeKey \in ActiveKeyChoices :
        LET f == FilterCands(cands, [passed |-> <<>>, lock |-> lock, acq |-> {},
                                     denied |-> {}],
                             activeKey, now, LivePids)
            n == SliceEnd(f.passed, activeAttachments)
            go == SubSeq(f.passed, 1, n)
        IN  /\ lock' = f.lock
            /\ inFlight' = inFlight \cup {KeyOf(Host, go[i].port) : i \in 1..n}
            /\ activeAttachments' = activeAttachments + n
            /\ attempts' = attempts \o [i \in 1..n |-> NewAttempt(go[i])]
            /\ act' = [kind |-> IF f.acq = {} /\ f.denied = {} THEN "none" ELSE kind,
                       acq |-> f.acq, denied |-> f.denied,
                       cut |-> {<<f.passed[i].pid, f.passed[i].port>> :
                                    i \in (n + 1)..Len(f.passed)},
                       launched |-> [i \in 1..n |-> <<go[i].pid, go[i].port>>]]

\* The debounced callback, lines 251-255, with scanForBunDebugger up to its
\* first pending await (lines 168-195).
CycleBegin ==
    /\ ~disposed
    /\ IF activeAttachments >= maxConcurrentAttachments
       THEN /\ act' = NoAct
            /\ UNCHANGED <<osVars, lock, suppressFiles, memVars, hostVars>>
       ELSE IF isScanning \/ (now - lastScanTime) < ScanCoalesceMs
       THEN /\ FilterAndLaunch(CachedCandidates(processCache, now), "cached")
            /\ UNCHANGED <<osVars, suppressFiles, attachedSessions, sessionPidMap,
                           processCache, suppressed, cooldown, attachedPids,
                           sessionIdByKey, isScanning, lastScanTime, disposed,
                           scanCtx, hostVars>>
       ELSE /\ lastScanTime' = now
            /\ IF getCurrentWindowTerminalPids = {}
               THEN /\ isScanning' = FALSE
                    /\ scanCtx' = scanCtx
                    /\ act' = NoAct
               ELSE /\ isScanning' = TRUE
                    /\ scanCtx' = [phase |-> "exec", now |-> now,
                                   terminalPids |-> getCurrentWindowTerminalPids,
                                   lsof |-> <<>>, ps |-> <<>>]
                    /\ act' = NoAct
            /\ UNCHANGED <<osVars, lock, suppressFiles, attachedSessions,
                           sessionPidMap, processCache, suppressed, cooldown,
                           inFlight, attachedPids, sessionIdByKey,
                           activeAttachments, disposed, attempts, hostVars>>
    /\ UNCHANGED raceVars
    /\ osSame' = IF scanCtx'.phase = "none" THEN TRUE ELSE osSame
    /\ UNCHANGED stoppedAlive

\* lsof and ps run (lines 188-195): what they print is the state they saw.
ExecSnapshot ==
    /\ scanCtx.phase = "exec"
    /\ scanCtx' = [scanCtx EXCEPT !.phase = "ready", !.lsof = LsofOut,
                                  !.ps = PsParentMap]
    /\ act' = NoAct
    /\ UNCHANGED <<osVars, lock, suppressFiles, attachedSessions, sessionPidMap,
                   processCache, suppressed, cooldown, inFlight, attachedPids,
                   sessionIdByKey, isScanning, lastScanTime, activeAttachments,
                   disposed, attempts, hostVars, raceVars>>
    /\ UNCHANGED <<stoppedAlive, osSame>>

\* The scan resumes with both outputs (lines 197-241) and the callback goes
\* on to filter and launch (lines 256-302).
ScanFinish ==
    /\ scanCtx.phase = "ready"
    /\ LET r == ScanLines(scanCtx.lsof,
                          [found |-> <<>>, seen |-> {}, suppressed |-> suppressed,
                           files |-> suppressFiles, cache |-> processCache],
                          scanCtx.terminalPids, scanCtx.ps, LivePids, scanCtx.now)
       IN  /\ suppressed' = r.suppressed
           /\ suppressFiles' = r.files
           /\ processCache' = CacheCleanup(r.cache, scanCtx.now)
           /\ FilterAndLaunch(r.found, "fresh")
    /\ isScanning' = FALSE
    /\ scanCtx' = [phase |-> "none"]
    /\ UNCHANGED <<osVars, attachedSessions, sessionPidMap, cooldown, attachedPids,
                   sessionIdByKey, lastScanTime, disposed, hostVars, raceVars>>
    /\ osSame' = TRUE
    /\ UNCHANGED stoppedAlive

\* ----------------------------------------------------- attach attempts
\* The finally block, lines 298-301.
AttemptFinally(i) ==
    /\ inFlight' = inFlight \ {KeyOf(Host, attempts[i].port)}
    /\ activeAttachments' = activeAttachments - 1
    /\ attempts' = RemoveAt(attempts, i)

PortAnswers(port) == \E pid \in BunPids : <<pid, port>> \in listeners

\* checkBunDebugger answered false (no upgrade, error, timeout): line 275.
ProbeFail(i) ==
    /\ attempts[i].phase = "probing"
    /\ lock' = releasePortLock(lock, attempts[i].port, SelfPid)
    /\ AttemptFinally(i)
    /\ act' = NoAct
    /\ UNCHANGED <<osVars, suppressFiles, attachedSessions, sessionPidMap,
                   processCache, suppressed, cooldown, attachedPids, sessionIdByKey,
                   isScanning, lastScanTime, disposed, scanCtx, hostVars, raceVars>>
    /\ UNCHANGED <<stoppedAlive, osSame>>

\* checkBunDebugger answered true: startDebugging is called, lines 276-285.
ProbeOk(i) ==
    /\ attempts[i].phase = "probing"
    /\ PortAnswers(attempts[i].port)
    /\ Len(calls) < MaxCalls
    /\ calls' = Append(calls, [key |-> KeyOf(Host, attempts[i].port),
                               st |-> "pending"])
    /\ attempts' = [attempts EXCEPT ![i].phase = "attaching",
                                    ![i].call = Len(calls) + 1]
    /\ act' = NoAct
    /\ UNCHANGED <<osVars, lock, suppressFiles, attachedSessions, sessionPidMap,
                   processCache, suppressed, cooldown, inFlight, attachedPids,
                   sessionIdByKey, isScanning, lastScanTime, activeAttachments,
                   disposed, scanCtx, stopRequested, raceVars>>
    /\ UNCHANGED <<stoppedAlive, osSame>>

\* startDebugging settled before the 2000 ms timer: lines 286-301.
AttemptSettle(i) ==
    /\ attempts[i].phase = "attaching"
    /\ calls[attempts[i].call].st # "pending"
    /\ LET a == attempts[i]
           key == KeyOf(Host, a.port)
           success == calls[a.call].st \in {"live", "ended"}
       IN  IF success
           THEN /\ attachedSessions' = attachedSessions \cup {key}
                /\ sessionPidMap' = [sessionPidMap EXCEPT ![key] = a.pid]
                /\ attachedPids' = attachedPids \cup {a.pid}
                /\ lock' = lock
           ELSE /\ lock' = releasePortLock(lock, a.port, SelfPid)
                /\ UNCHANGED <<attachedSessions, sessionPidMap, attachedPids>>
    /\ AttemptFinally(i)
    /\ act' = NoAct
    /\ UNCHANGED <<osVars, suppressFiles, processCache, suppressed, cooldown,
                   sessionIdByKey, isScanning, lastScanTime, disposed, scanCtx,
                   hostVars, raceVars>>
    /\ UNCHANGED <<stoppedAlive, osSame>>

\* The 2000 ms timer won the race: lines 291-301. The call stays with the host.
AttemptTimeout(i) ==
    /\ attempts[i].phase = "attaching"
    /\ calls[attempts[i].call].st = "pending"
    /\ lock' = releasePortLock(lock, attempts[i].port, SelfPid)
    /\ AttemptFinally(i)
    /\ act' = NoAct
    /\ UNCHANGED <<osVars, suppressFiles, attachedSessions, sessionPidMap,
                   processCache, suppressed, cooldown, attachedPids, sessionIdByKey,
                   isScanning, lastScanTime, disposed, scanCtx, hostVars, raceVars>>
    /\ UNCHANGED <<stoppedAlive, osSame>>

\* ------------------------------------------------------- host events
\* The host starts the session of call c and reports it: lines 314-327.
HostStartOk_Overwrite(c) ==
    /\ calls[c].st = "pending"
    /\ PortAnswers(PortOfKey(calls[c].key))
    /\ calls' = [calls EXCEPT ![c].st = "live"]
    /\ sessionIdByKey' = [sessionIdByKey EXCEPT ![calls[c].key] = c]
    /\ stopRequested' = stopRequested
    /\ act' = NoAct
    /\ UNCHANGED <<osVars, lock, suppressFiles, attachedSessions, sessionPidMap,
                   processCache, suppressed, cooldown, inFlight, attachedPids,
                   isScanning, lastScanTime, activeAttachments, disposed, scanCtx,
                   attempts, raceVars>>
    /\ UNCHANGED <<stoppedAlive, osSame>>

HostStartOk(c) ==
    /\ calls[c].st = "pending"
    /\ PortAnswers(PortOfKey(calls[c].key))
    /\ calls' = [calls EXCEPT ![c].st = "live"]
    /\ LET key == calls[c].key
           existing == sessionIdByKey[key]
       IN  IF existing = 0
           THEN /\ sessionIdByKey' = [sessionIdByKey EXCEPT ![key] = c]
                /\ stopRequested' = stopRequested
           ELSE /\ sessionIdByKey' = sessionIdByKey
                /\ stopRequested' = IF existing # c THEN stopRequested \cup {c}
                                    ELSE stopRequested
    /\ act' = NoAct
    /\ UNCHANGED <<osVars, lock, suppressFiles, attachedSessions, sessionPidMap,
                   processCache, suppressed, cooldown, inFlight, attachedPids,
                   isScanning, lastScanTime, activeAttachments, disposed, scanCtx,
                   attempts, raceVars>>
    /\ UNCHANGED <<stoppedAlive, osSame>>

\* startDebugging resolves false, or rejects: no session, no event.
HostStartFail(c, how) ==
    /\ calls[c].st = "pending"
    /\ calls' = [calls EXCEPT ![c].st = how]
    /\ act' = NoAct
    /\ UNCHANGED <<osVars, lock, suppressFiles, memVars, stopRequested, raceVars>>
    /\ UNCHANGED <<stoppedAlive, osSame>>

\* The host reports the end of session c: lines 329-351.
HostTerminate(c) ==
    /\ calls[c].st = "live"
    /\ calls' = [calls EXCEPT ![c].st = "ended"]
    /\ LET key == calls[c].key
           port == PortOfKey(key)
           pid == sessionPidMap[key]
           manual == pid # 0 /\ isProcessAlive(pid, LivePids)
           m == markSuppressed(pid, port, suppressed, suppressFiles)
       IN  /\ attachedSessions' = attachedSessions \ {key}
           /\ sessionPidMap' = [sessionPidMap EXCEPT ![key] = 0]
           /\ lock' = releasePortLock(lock, port, SelfPid)
           /\ cooldown' = [cooldown EXCEPT ![key] = now + CooldownMs]
           /\ sessionIdByKey' = [sessionIdByKey EXCEPT ![key] = 0]
           /\ attachedPids' = IF pid # 0 THEN attachedPids \ {pid} ELSE attachedPids
           /\ suppressed' = IF manual THEN m.suppressed ELSE suppressed
           /\ suppressFiles' = IF manual THEN m.files ELSE suppressFiles
           /\ act' = NoAct
    /\ UNCHANGED <<osVars, processCache, inFlight, isScanning, lastScanTime,
                   activeAttachments, disposed, scanCtx, attempts, stopRequested,
                   raceVars>>
    /\ LET key == calls[c].key
           pid == sessionPidMap[key]
       IN  stoppedAlive' =
             IF key \in attachedSessions /\ pid # 0 /\ isProcessAlive(pid, LivePids)
             THEN stoppedAlive \cup {<<pid, PortOfKey(key)>>}
             ELSE stoppedAlive
    /\ UNCHANGED osSame

\* The dispose handler, lines 353-362.
Dispose ==
    /\ scenario # "ports"
    /\ ~disposed
    /\ disposed' = TRUE
    /\ lock' = [p \in Ports |->
                  IF KeyOf(Host, p) \in attachedSessions
                  THEN releasePortLock(lock, p, SelfPid)[p] ELSE lock[p]]
    /\ act' = NoAct
    /\ UNCHANGED <<osVars, suppressFiles, attachedSessions, sessionPidMap,
                   processCache, suppressed, cooldown, inFlight, attachedPids,
                   sessionIdByKey, isScanning, lastScanTime, activeAttachments,
                   scanCtx, attempts, hostVars, raceVars>>
    /\ UNCHANGED <<stoppedAlive, osSame>>

\* ------------------------------------------------------- environment
Tick ==
    /\ scenario \in {"time", "live"}
    /\ now < MaxNow
    /\ now' = now + TickMs
    /\ act' = NoAct
    /\ UNCHANGED <<alive, listeners, terminalOpen, otherAlive, scenario, lock,
                   suppressFiles, memVars, hostVars, raceVars>>
    /\ UNCHANGED <<stoppedAlive, osSame>>

\* The environments a behaviour is drawn from. Each fixes which target
\* processes exist and what else may happen around the coordinator:
\*   "ports"    3 listens on any of the debugger ports and its child 4 on the
\*              well-known one;
\*   "time"     3 listens on the well-known port and the clock advances;
\*   "own"      3 and the foreign 5 listen on the well-known port and the
\*              terminal opens and closes;
\*   "windows"  3 listens on the well-known port and a second window uses
\*              the lock files.
Scenarios == {"ports", "time", "own", "windows"}

ScenarioPids(sc) ==
    CASE sc = "ports" -> {3, 4}
      [] sc = "own" -> {3, 5}
      [] OTHER -> {3}

PortPlans(sc, pid) ==
    IF sc = "ports" /\ pid = 3 THEN SUBSET Ports \ {{}} ELSE {{DebugPort}}

ProcStart(pid) ==
    /\ pid \in ScenarioPids(scenario)
    /\ pid \notin alive
    /\ pid = 4 => 3 \in alive
    /\ pid = 3 => terminalOpen
    /\ \E ps \in PortPlans(scenario, pid) :
          listeners' = listeners \cup {<<pid, p>> : p \in ps}
    /\ alive' = alive \cup {pid}
    /\ act' = NoAct
    /\ UNCHANGED <<now, terminalOpen, otherAlive, scenario, lock, suppressFiles,
                   memVars, hostVars, raceVars>>
    /\ osSame' = FALSE
    /\ UNCHANGED stoppedAlive

ProcExit(pid) ==
    /\ pid \in alive
    /\ alive' = alive \ {pid}
    /\ listeners' = {l \in listeners : l[1] # pid}
    /\ act' = NoAct
    /\ UNCHANGED <<now, terminalOpen, otherAlive, scenario, lock, suppressFiles,
                   memVars, hostVars, raceVars>>
    /\ osSame' = FALSE
    /\ stoppedAlive' = {x \in stoppedAlive : x[1] # pid}

TerminalToggle ==
    /\ scenario = "own"
    /\ terminalOpen' = ~terminalOpen
    /\ act' = NoAct
    /\ UNCHANGED <<now, alive, listeners, otherAlive, scenario, lock, suppressFiles,
                   memVars, hostVars, raceVars>>
    /\ osSame' = FALSE
    /\ UNCHANGED stoppedAlive

\* The other window, running the same lock functions.
OtherAcquire(port) ==
    /\ otherAlive
    /\ acquirePortLock(lock, port, OtherPid, LivePids).ret
    /\ lock' = acquirePortLock(lock, port, OtherPid, LivePids).lock
    /\ lock' # lock
    /\ act' = NoAct
    /\ UNCHANGED <<osVars, suppressFiles, memVars, hostVars, raceVars>>
    /\ osSame' = FALSE
    /\ UNCHANGED stoppedAlive

OtherRelease(port) ==
    /\ otherAlive
    /\ lock' = releasePortLock(lock, port, OtherPid)
    /\ lock' # lock
    /\ act' = NoAct
    /\ UNCHANGED <<osVars, suppressFiles, memVars, hostVars, raceVars>>
    /\ osSame' = FALSE
    /\ UNCHANGED stoppedAlive

OtherExit ==
    /\ otherAlive
    /\ otherAlive' = FALSE
    /\ act' = NoAct
    /\ UNCHANGED <<now, alive, listeners, terminalOpen, scenario, lock,
                   suppressFiles, memVars, hostVars, raceVars>>
    /\ osSame' = FALSE
    /\ UNCHANGED stoppedAlive

\* ------------------------------------------------------ specification
\* No walk under way.
WalkIdle ==
    [pid |-> 0, parentMap |-> <<>>, terminalPids |-> {}, current |-> 0,
     visited |-> {}, pc |-> "done", ret |-> FALSE, n |-> 0]

RaceIdle ==
    [w \in Windows |-> [pc |-> "idle", port |-> 0, ret |-> "none", stale |-> FALSE,
                        held |-> {}]]

Init ==
    /\ scenario \in Scenarios
    /\ now = Epoch
    /\ alive = {}
    /\ listeners = {}
    /\ terminalOpen = TRUE
    /\ otherAlive = (scenario = "windows")
    /\ lock = [p \in Ports |-> NoFile]
    /\ suppressFiles \in IF scenario = "time" THEN {{}, {<<3, DebugPort>>}} ELSE {{}}
    /\ attachedSessions = {}
    /\ sessionPidMap = [k \in Keys |-> 0]
    /\ processCache = <<>>
    /\ suppressed = {}
    /\ cooldown = [k \in Keys |-> 0]
    /\ inFlight = {}
    /\ attachedPids = {}
    /\ sessionIdByKey = [k \in Keys |-> 0]
    /\ isScanning = FALSE
    /\ lastScanTime = 0
    /\ activeAttachments = 0
    /\ disposed = FALSE
    /\ scanCtx = [phase |-> "none"]
    /\ attempts = <<>>
    /\ calls = <<>>
    /\ stopRequested = {}
    /\ act = NoAct
    /\ stoppedAlive = {}
    /\ osSame = FALSE
    /\ rc = RaceIdle
    /\ wk = WalkIdle

Next ==
    \/ CycleBegin
    \/ ExecSnapshot
    \/ ScanFinish
    \/ \E i \in 1..Len(attempts) : ProbeFail(i)
    \/ \E i \in 1..Len(attempts) : ProbeOk(i)
    \/ \E i \in 1..Len(attempts) : AttemptSettle(i)
    \/ \E i \in 1..Len(attempts) : AttemptTimeout(i)
    \/ \E c \in 1..Len(calls) : HostStartOk(c)
    \/ \E c \in 1..Len(calls) : \E how \in {"failed", "threw"} : HostStartFail(c, how)
    \/ \E c \in 1..Len(calls) : HostTerminate(c)
    \/ Dispose
    \/ Tick
    \/ \E pid \in BunPids : ProcStart(pid)
    \/ \E pid \in BunPids : ProcExit(pid)
    \/ TerminalToggle
    \/ \E port \in Ports : OtherAcquire(port)
    \/ \E port \in Ports : OtherRelease(port)
    \/ OtherExit

Spec == Init /\ [][Next]_vars

\* ---------------------------------------------------------------------
\* SpecLive: the environment of the attach scenario. Process 3 listens on
\* 9229 (and perhaps 6499) under the open terminal and stays; no live window
\* holds a claim (a dead one may have left its record); every probe is
\* acknowledged and the host starts every session before the timer. The
\* interval timer, the exec callbacks, the probe and the host all deliver.
\* ---------------------------------------------------------------------
InitLive ==
    /\ scenario = "live"
    /\ now = Epoch
    /\ alive = {3}
    /\ listeners \in {{<<3, DebugPort>>}, {<<3, DebugPort>>, <<3, AltPort>>}}
    /\ terminalOpen = TRUE
    /\ otherAlive = FALSE
    /\ lock \in [Ports -> {NoFile, OtherPid}]
    /\ suppressFiles = {}
    /\ attachedSessions = {}
    /\ sessionPidMap = [k \in Keys |-> 0]
    /\ processCache = <<>>
    /\ suppressed = {}
    /\ cooldown = [k \in Keys |-> 0]
    /\ inFlight = {}
    /\ attachedPids = {}
    /\ sessionIdByKey = [k \in Keys |-> 0]
    /\ isScanning = FALSE
    /\ lastScanTime = 0
    /\ activeAttachments = 0
    /\ disposed = FALSE
    /\ scanCtx = [phase |-> "none"]
    /\ attempts = <<>>
    /\ calls = <<>>
    /\ stopRequested = {}
    /\ act = NoAct
    /\ stoppedAlive = {}
    /\ osSame = FALSE
    /\ rc = RaceIdle
    /\ wk = WalkIdle

ProbeOkSome == \E i \in 1..Len(attempts) : ProbeOk(i)
AttemptSettleSome == \E i \in 1..Len(attempts) : AttemptSettle(i)
HostStartOkSome == \E c \in 1..Len(calls) : HostStartOk(c)

NextLive ==
    \/ CycleBegin
    \/ ExecSnapshot
    \/ ScanFinish
    \/ ProbeOkSome
    \/ HostStartOkSome
    \/ AttemptSettleSome
    \/ Tick

SpecLive ==
    /\ InitLive /\ [][NextLive]_vars
    /\ WF_vars(CycleBegin) /\ WF_vars(ExecSnapshot) /\ WF_vars(ScanFinish)
    /\ WF_vars(ProbeOkSome) /\ WF_vars(HostStartOkSome) /\ WF_vars(AttemptSettleSome)

\* ---------------------------------------------------------------------
\* SpecRace: two windows on the lock files, one file-system call per step.
\* rc[w] is window w's position: pc, the port of the call, what the last
\* acquirePortLock returned, whether the record named a dead process when
\* that call began, and the ports w has acquired and not yet released
\* (those its attach attempts and sessions run on).
\* ---------------------------------------------------------------------
WindowLive(w) == w \in LivePids

RaceAcquireCall(w, port) ==
    /\ WindowLive(w)
    /\ rc[w].pc = "idle"
    /\ rc' = [rc EXCEPT ![w].pc = "acq_exists", ![w].port = port, ![w].ret = "none",
                        ![w].stale = (lock[port] # NoFile /\ lock[port] # w
                                        /\ ~isProcessAlive(lock[port], LivePids))]
    /\ UNCHANGED <<osVars, lock, suppressFiles, memVars, hostVars, obsVars, wk>>

RaceReleaseCall(w, port) ==
    /\ WindowLive(w)
    /\ rc[w].pc = "idle"
    /\ port \in rc[w].held
    /\ rc' = [rc EXCEPT ![w].pc = "rel_exists", ![w].port = port, ![w].ret = "none",
                        ![w].stale = FALSE, ![w].held = @ \ {port}]
    /\ UNCHANGED <<osVars, lock, suppressFiles, memVars, hostVars, obsVars, wk>>

\* fs.existsSync(file), lines 46 and 63
RaceExistsSync(w) ==
    /\ WindowLive(w)
    /\ rc[w].pc \in {"acq_exists", "rel_exists"}
    /\ rc' = [rc EXCEPT ![w].pc =
                 IF lock[rc[w].port] # NoFile
                 THEN (IF rc[w].pc = "acq_exists" THEN "acq_read" ELSE "rel_read")
                 ELSE (IF rc[w].pc = "acq_exists" THEN "acq_write" ELSE "idle")]
    /\ UNCHANGED <<osVars, lock, suppressFiles, memVars, hostVars, obsVars, wk>>

\* fs.readFileSync(file) and the test on its content, lines 47-51 and 64-66;
\* a file removed meanwhile makes the read throw (lines 55-57 and 70).
RaceReadFileSync(w) ==
    /\ WindowLive(w)
    /\ rc[w].pc \in {"acq_read", "rel_read"}
    /\ LET data == lock[rc[w].port]
       IN  IF rc[w].pc = "acq_read"
           THEN IF data = NoFile
                THEN rc' = [rc EXCEPT ![w].pc = "idle", ![w].ret = "true",
                                      ![w].held = @ \cup {rc[w].port}]
                ELSE IF LockContended(data, w, LivePids)
                     THEN rc' = [rc EXCEPT ![w].pc = "idle", ![w].ret = "false"]
                     ELSE rc' = [rc EXCEPT ![w].pc = "acq_write"]
           ELSE IF data # NoFile /\ OwnsRecord(data, w)
                THEN rc' = [rc EXCEPT ![w].pc = "rel_unlink"]
                ELSE rc' = [rc EXCEPT ![w].pc = "idle"]
    /\ UNCHANGED <<osVars, lock, suppressFiles, memVars, hostVars, obsVars, wk>>

\* fs.writeFileSync(file, ...), lines 53-54
RaceWriteFileSync(w) ==
    /\ WindowLive(w)
    /\ rc[w].pc = "acq_write"
    /\ lock' = [lock EXCEPT ![rc[w].port] = w]
    /\ rc' = [rc EXCEPT ![w].pc = "idle", ![w].ret = "true",
                        ![w].held = @ \cup {rc[w].port}]
    /\ UNCHANGED <<osVars, suppressFiles, memVars, hostVars, obsVars, wk>>

\* fs.unlinkSync(file), line 67
RaceUnlinkSync(w) ==
    /\ WindowLive(w)
    /\ rc[w].pc = "rel_unlink"
    /\ lock' = [lock EXCEPT ![rc[w].port] = NoFile]
    /\ rc' = [rc EXCEPT ![w].pc = "idle"]
    /\ UNCHANGED <<osVars, suppressFiles, memVars, hostVars, obsVars, wk>>

\* The other window's extension host ends, whatever it was doing.
RaceOtherExit ==
    /\ otherAlive
    /\ otherAlive' = FALSE
    /\ UNCHANGED <<now, alive, listeners, terminalOpen, scenario, lock,
                   suppressFiles, memVars, hostVars, obsVars, rc, wk>>

InitRace ==
    /\ scenario = "race"
    /\ now = Epoch
    /\ alive = {}
    /\ listeners = {}
    /\ terminalOpen = TRUE
    /\ otherAlive = TRUE
    /\ lock = [p \in Ports |-> NoFile]
    /\ suppressFiles = {}
    /\ attachedSessions = {}
    /\ sessionPidMap = [k \in Keys |-> 0]
    /\ processCache = <<>>
    /\ suppressed = {}
    /\ cooldown = [k \in Keys |-> 0]
    /\ inFlight = {}
    /\ attachedPids = {}
    /\ sessionIdByKey = [k \in Keys |-> 0]
    /\ isScanning = FALSE
    /\ lastScanTime = 0
    /\ activeAttachments = 0
    /\ disposed = FALSE
    /\ scanCtx = [phase |-> "none"]
    /\ attempts = <<>>
    /\ calls = <<>>
    /\ stopRequested = {}
    /\ act = NoAct
    /\ stoppedAlive = {}
    /\ osSame = FALSE
    /\ rc = RaceIdle
    /\ wk = WalkIdle

NextRace ==
    \/ \E w \in Windows : \E port \in Ports : RaceAcquireCall(w, port)
    \/ \E w \in Windows : \E port \in Ports : RaceReleaseCall(w, port)
    \/ \E w \in Windows : RaceExistsSync(w)
    \/ \E w \in Windows : RaceReadFileSync(w)
    \/ \E w \in Windows : RaceWriteFileSync(w)
    \/ \E w \in Windows : RaceUnlinkSync(w)
    \/ RaceOtherExit

SpecRace == InitRace /\ [][NextRace]_vars

\* ---------------------------------------------------------------------
\* SpecWalk: belongsToCurrentWindow (lines 203-212) on any parent map over
\* the pids 1..WalkMaxPid (entries may be missing, point anywhere, or be 0),
\* any set of terminal pids and any starting pid, one iteration of the while
\* loop per step. wk.n counts the nodes the loop body has looked at.
\* ---------------------------------------------------------------------
WalkPids == 1..WalkMaxPid

\* The loop condition, line 206.
WalkCond_NoInitStop(current, visited) ==
    current # 0 /\ current \notin visited

WalkCond(current, visited) ==
    current # 0 /\ current \notin visited /\ current # InitPid

\* line 207: the current pid is a terminal's.
WalkReturnTrue ==
    /\ wk.pc = "loop"
    /\ WalkCond(wk.current, wk.visited)
    /\ wk.current \in wk.terminalPids
    /\ wk' = [wk EXCEPT !.pc = "done", !.ret = TRUE, !.n = @ + 1]
    /\ UNCHANGED <<osVars, lock, suppressFiles, memVars, hostVars, obsVars, rc>>

\* lines 208-209: remember the pid and step to its parent.
WalkAdvance ==
    /\ wk.pc = "loop"
    /\ WalkCond(wk.current, wk.visited)
    /\ wk.current \notin wk.terminalPids
    /\ wk' = [wk EXCEPT !.visited = @ \cup {wk.current},
                        !.current = parentMapGet(wk.parentMap, wk.current),
                        !.n = @ + 1]
    /\ UNCHANGED <<osVars, lock, suppressFiles, memVars, hostVars, obsVars, rc>>

\* line 211: the loop condition failed.
WalkReturnFalse ==
    /\ wk.pc = "loop"
    /\ ~WalkCond(wk.current, wk.visited)
    /\ wk' = [wk EXCEPT !.pc = "done", !.ret = FALSE]
    /\ UNCHANGED <<osVars, lock, suppressFiles, memVars, hostVars, obsVars, rc>>

InitWalk ==
    /\ scenario = "walk"
    /\ now = Epoch
    /\ alive = {}
    /\ listeners = {}
    /\ terminalOpen = TRUE
    /\ otherAlive = FALSE
    /\ lock = [p \in Ports |-> NoFile]
    /\ suppressFiles = {}
    /\ attachedSessions = {}
    /\ sessionPidMap = [k \in Keys |-> 0]
    /\ processCache = <<>>
    /\ suppressed = {}
    /\ cooldown = [k \in Keys |-> 0]
    /\ inFlight = {}
    /\ attachedPids = {}
    /\ sessionIdByKey = [k \in Keys |-> 0]
    /\ isScanning = FALSE
    /\ lastScanTime = 0
    /\ activeAttachments = 0
    /\ disposed = FALSE
    /\ scanCtx = [phase |-> "none"]
    /\ attempts = <<>>
    /\ calls = <<>>
    /\ stopRequested = {}
    /\ act = NoAct
    /\ stoppedAlive = {}
    /\ osSame = FALSE
    /\ rc = RaceIdle
    /\ \E dom \in SUBSET WalkPids :
       \E parentMap \in [dom -> 0..WalkMaxPid] :
       \E terminalPids \in SUBSET WalkPids :
       \E pid \in 0..WalkMaxPid :
          wk = [pid |-> pid, parentMap |-> parentMap, terminalPids |-> terminalPids,
                current |-> pid, visited |-> {}, pc |-> "loop", ret |-> FALSE,
                n |-> 0]

NextWalk ==
    \/ WalkReturnTrue
    \/ WalkAdvance
    \/ WalkReturnFalse

SpecWalk ==
    /\ InitWalk /\ [][NextWalk]_vars
    /\ WF_vars(NextWalk)


\* =====================================================================
\* Claims
\* =====================================================================
LiveCalls == {c \in 1..Len(calls) : calls[c].st = "live"}
Touched == act.acq \cup act.denied \cup SeqToSet(act.launched)

\* C1 (SpecRace): two live windows that run acquirePortLock for the same port
\* never both get true: no port is held by both at once.
C1_ExactlyOneAcquires ==
    \A port \in Ports :
        ~(otherAlive /\ port \in rc[SelfPid].held /\ port \in rc[OtherPid].held)

\* C2 (Spec): no two live host sessions started by this instance carry the
\* same host:port key.
C2_NoTwoLiveSessionsPerKey ==
    \A c1 \in LiveCalls : \A c2 \in LiveCalls :
        c1 # c2 => calls[c1].key # calls[c2].key

\* C3 (Spec): at most one endpoint of a target process is Attached: no two
\* keys of attachedSessions map to the same pid in sessionPidMap.
C3_OneAttachedEndpointPerPid ==
    \A k1 \in attachedSessions : \A k2 \in attachedSessions :
        (k1 # k2 /\ sessionPidMap[k1] # 0) => sessionPidMap[k1] # sessionPidMap[k2]

\* C4 (Spec): once the session attached to (pid, port) was ended while pid
\* ran, no step takes the lock, is refused the lock or launches an attempt
\* for (pid, port) as long as pid keeps running.
C4_NoAttemptWhileSuppressed ==
    \A x \in Touched : x \notin stoppedAlive

\* C5 (Spec): for every (pid, port) with a suppression marker, in memory or
\* on disk, whose pid is not alive, isSuppressed returns false and leaves no
\* marker behind.
C5_StaleMarkerDiscarded ==
    \A pid \in BunPids : \A port \in Ports :
        ((<<pid, port>> \in suppressed \cup suppressFiles) /\ pid \notin alive) =>
            LET r == isSuppressed(pid, port, suppressed, suppressFiles, LivePids)
            IN  /\ r.ret = FALSE
                /\ <<pid, port>> \notin r.suppressed
                /\ <<pid, port>> \notin r.files

\* C6 (SpecRace): an acquirePortLock call that began on a record naming a
\* dead owner has returned true and left the record naming the caller.
C6_StaleClaimReclaimed ==
    \A w \in Windows :
        (rc[w].pc = "idle" /\ rc[w].stale) =>
            (rc[w].ret = "true" /\ lock[rc[w].port] = w)

C6_Witness ==
    /\ ~otherAlive
    /\ rc[SelfPid].pc = "idle" /\ rc[SelfPid].stale
    /\ rc[SelfPid].ret = "true" /\ lock[rc[SelfPid].port] = SelfPid

\* C7 (SpecRace): the unlink of releasePortLock removes only a record that
\* names the caller: a record of another window is never deleted.
C7_ReleaseOnlyOwnRecord ==
    [][\A w \in Windows :
          (rc[w].pc = "rel_unlink" /\ rc'[w].pc = "idle") =>
              lock[rc[w].port] \in {NoFile, w}]_vars

\* C8 (Spec): a cycle served without a fresh look at the terminals takes the
\* lock, is refused the lock or launches an attempt only for listeners whose
\* process is, or descends from, a terminal open in this window at that
\* moment; with no terminal open it touches none. (A fresh scan is judged by
\* the terminal and process lists it read, lines 179-225.)
C8_OnlyOwnedProcesses ==
    act.kind = "cached" =>
        \A x \in Touched \cap listeners :
            belongsToCurrentWindow(x[1], getCurrentWindowTerminalPids, PsParentMap)

\* C9 (SpecLive): with a live listener on 9229 under the window's terminal,
\* not suppressed, no live window holding the claim, the probe acknowledged
\* and the host starting the session in time, the instance reaches and keeps
\* a state with 127.0.0.1:9229 attached, after exactly one startDebugging
\* call for that key.
CallsFor(key) == {c \in 1..Len(calls) : calls[c].key = key}
MainKey == KeyOf(Host, DebugPort)
AttachedOnce(key) ==
    /\ key \in attachedSessions
    /\ Cardinality(CallsFor(key)) = 1
    /\ \A c \in CallsFor(key) : calls[c].st = "live"

C9_EventuallyAttachedOnce == <>[]AttachedOnce(MainKey)

C9_Witness == scenario = "live" /\ AttachedOnce(MainKey) /\ sessionPidMap[MainKey] = 3

\* C10 as stated (Spec): a scan cycle that runs while nothing outside the
\* instance has changed since its last completed cycle takes no lock and
\* launches no attempt.
C10_RerunDoesNothing ==
    [][osSame => (act'.acq = {} /\ act'.launched = <<>>)]_vars

\* A candidate (pid, port) this instance has already dealt with: its key is
\* attached or in flight, or its process has an attached session.
Handled(x) ==
    \/ KeyOf(Host, x[2]) \in attachedSessions
    \/ KeyOf(Host, x[2]) \in inFlight
    \/ x[1] \in attachedPids

\* C10 as amended (Spec): a scan cycle takes no lock, is refused none and
\* launches no attempt for a candidate whose key is attached or in flight
\* in this instance, or whose process has an attached session.
C10_NoAttemptForHandled ==
    [][\A x \in act'.acq \cup act'.denied \cup SeqToSet(act'.launched) :
          ~Handled(x)]_vars

\* A cycle has just launched an attempt while another endpoint stayed
\* attached and untouched.
C10_Witness ==
    /\ act.launched # <<>>
    /\ \E k \in attachedSessions :
          \A x \in Touched : KeyOf(Host, x[2]) # k /\ x[1] # sessionPidMap[k]

\* C11 (Spec): the number of attach attempts between launch and their
\* finally block, which activeAttachments counts, is never below 0 nor above
\* maxConcurrentAttachments, whichever cycle launched them.
C11_ActiveWithinCap ==
    /\ activeAttachments = Len(attempts)
    /\ activeAttachments >= 0
    /\ activeAttachments <= maxConcurrentAttachments

\* A cycle has just launched an attempt next to one an earlier cycle
\* launched, and the cap is reached.
C11_Witness ==
    /\ act.launched # <<>>
    /\ Len(attempts) > Len(act.launched)
    /\ activeAttachments = maxConcurrentAttachments

\* C12 (Spec): once no attempt for key K is in flight, K is in
\* attachedSessions only if the host has a live session for K, and a pid is
\* in attachedPids only if it owns such a key.
C12_AttachedOnlyIfLive ==
    /\ \A k \in attachedSessions \ inFlight :
          \E c \in LiveCalls : calls[c].key = k
    /\ inFlight = {} =>
          \A pid \in attachedPids :
              \E k \in attachedSessions : sessionPidMap[k] = pid

\* C13 (Spec): no cycle starts its scan or its eligibility filter while an
\* earlier cycle still awaits its scan or its attach attempts. A cycle starts
\* a fresh scan when isScanning rises; a cycle served from the cache shows
\* when its filter reaches the lock.
CycleStarts ==
    \/ ~isScanning /\ isScanning'
    \/ act'.kind = "cached"

C13_CyclesSerialized ==
    [][CycleStarts => (scanCtx.phase = "none" /\ attempts = <<>>)]_vars

\* The host has just reported the start of session c.
StartReported(c) == calls[c].st = "pending" /\ calls'[c].st = "live"

\* C14 (Spec): when the host reports the start of session c for key K and
\* sessionIdByKey holds another identifier for K, stopDebugging is requested
\* for c and the tracked identifier stays; when none is tracked, c becomes
\* the tracked identifier and nothing is stopped.
C14_DedupStopsNewer ==
    [][\A c \in 1..Len(calls) :
          StartReported(c) =>
              LET key == calls[c].key
                  existing == sessionIdByKey[key]
              IN  IF existing = 0
                  THEN /\ sessionIdByKey'[key] = c
                       /\ stopRequested' = stopRequested
                  ELSE /\ sessionIdByKey'[key] = existing
                       /\ existing # c => c \in stopRequested'
                       /\ stopRequested' \subseteq stopRequested \cup {c}]_vars

\* A second session for a tracked key was reported and asked to stop, and
\* the first one is still the tracked one.
C14_Witness ==
    \E c \in stopRequested :
        /\ calls[c].st = "live"
        /\ sessionIdByKey[calls[c].key] \notin {0, c}
        /\ calls[sessionIdByKey[calls[c].key]].st = "live"

\* The host has just reported the end of session c.
EndReported(c) == calls[c].st = "live" /\ calls'[c].st = "ended"

\* C15 (Spec): on the termination event of a session whose key is tracked
\* with owning pid P, this instance's lock on the port is gone; if P is alive
\* the marker for (P, port) exists afterwards; if P is dead no marker is
\* written and no cooldown in the future is left on the key.
C15_TerminateByCase ==
    [][\A c \in 1..Len(calls) :
          (EndReported(c) /\ sessionPidMap[calls[c].key] # 0) =>
              LET key == calls[c].key
                  port == PortOfKey(key)
                  pid == sessionPidMap[key]
              IN  /\ lock'[port] # SelfPid
                  /\ IF isProcessAlive(pid, LivePids)
                     THEN /\ <<pid, port>> \in suppressFiles'
                          /\ <<pid, port>> \in suppressed'
                     ELSE /\ suppressFiles' = suppressFiles
                          /\ suppressed' = suppressed
                          /\ ~(cooldown'[key] > now)]_vars

\* The filter has just reached the lock for these <<pid, port>> pairs.
TouchedNext == act'.acq \cup act'.denied \cup SeqToSet(act'.launched)

EndsWithoutSuccess(i) ==
    /\ attempts' = RemoveAt(attempts, i)
    /\ ~(attempts[i].phase = "attaching"
           /\ calls[attempts[i].call].st \in {"live", "ended"})

\* C17 (Spec): an attempt that ends without success leaves the port's lock
\* not owned by this instance, its key out of inFlight, activeAttachments
\* one lower, and its key and pid out of attachedSessions and attachedPids.
C17_FailedAttemptCleansUp ==
    [][\A i \in 1..Len(attempts) :
          EndsWithoutSuccess(i) =>
              LET key == KeyOf(Host, attempts[i].port)
              IN  /\ lock'[attempts[i].port] # SelfPid
                  /\ key \notin inFlight'
                  /\ activeAttachments' = activeAttachments - 1
                  /\ key \notin attachedSessions'
                  /\ attempts[i].pid \notin attachedPids']_vars

\* The k-th pid of the parent chain that starts at pid; a missing entry and
\* a parent of 0 both end the chain at 0.
RECURSIVE ChainAt(_, _, _)
ChainAt(parentMap, pid, k) ==
    IF k = 0 THEN pid
    ELSE parentMapGet(parentMap, ChainAt(parentMap, pid, k - 1))

\* A terminal pid occurs on the chain before the chain reaches pid 1, a
\* missing parent, or a pid it has already passed.
TerminalOnChain(pid, terminalPids, parentMap) ==
    \E k \in 0..WalkMaxPid :
        /\ ChainAt(parentMap, pid, k) \in terminalPids
        /\ \A j \in 0..k : ChainAt(parentMap, pid, j) \notin {0, InitPid}
        /\ \A i \in 0..k : \A j \in 0..k :
              i # j => ChainAt(parentMap, pid, i) # ChainAt(parentMap, pid, j)

WalkWithinBound ==
    /\ wk.n <= WalkMaxPid
    /\ wk.n <= Cardinality(wk.visited) + 1

WalkExact ==
    wk.pc = "done" =>
        /\ wk.ret = TerminalOnChain(wk.pid, wk.terminalPids, wk.parentMap)
        /\ wk.ret = belongsToCurrentWindow(wk.pid, wk.terminalPids, wk.parentMap)

\* C18 (SpecWalk): for every parent map, terminal set and starting pid the
\* walk looks at no more nodes than there are pids, ends, and returns true
\* exactly when a terminal pid is on the chain from the pid itself before
\* the chain reaches pid 1, a missing parent or a pid already visited.
C18_WalkBoundedAndExact ==
    [](WalkWithinBound /\ WalkExact) /\ <>(wk.pc = "done")

\* The walk has ended, after two nodes or more, on a pid it had already
\* visited: the parent map has a cycle that avoids every terminal.
C18_Witness ==
    /\ scenario = "walk"
    /\ wk.pc = "done"
    /\ ~wk.ret
    /\ wk.current \in wk.visited
    /\ wk.n >= 2

\* Session c is a duplicate the dedup rule has asked to stop: another live
\* session is the tracked one for its key.
StoppedDuplicate(c) ==
    /\ c \in stopRequested
    /\ sessionIdByKey[calls[c].key] \notin {0, c}
    /\ calls[sessionIdByKey[calls[c].key]].st = "live"

\* C19 (Spec): when the host reports the end of a duplicate stopped by the
\* dedup rule, the original session stays tracked: attachedSessions,
\* sessionIdByKey, sessionPidMap and attachedPids keep what they hold for
\* the key, the port's lock file is untouched and no marker is written.
C19_DuplicateEndKeepsOriginal ==
    [][\A c \in 1..Len(calls) :
          (EndReported(c) /\ StoppedDuplicate(c)) =>
              LET key == calls[c].key
              IN  /\ (key \in attachedSessions) = (key \in attachedSessions')
                  /\ sessionIdByKey'[key] = sessionIdByKey[key]
                  /\ sessionPidMap'[key] = sessionPidMap[key]
                  /\ attachedPids' = attachedPids
                  /\ lock'[PortOfKey(key)] = lock[PortOfKey(key)]
                  /\ suppressFiles' = suppressFiles]_vars

\* C20 (Spec): this instance owns the lock record of port p exactly when it
\* has an attempt in flight or an attached session for the key of p, and
\* once the dispose handler has run it owns none.
C20_LockIffInUse ==
    \A p \in Ports :
        /\ (lock[p] = SelfPid) =
             (KeyOf(Host, p) \in inFlight \cup attachedSessions)
        /\ disposed => lock[p] # SelfPid

\* C21 (Spec): every live host session this instance started for key K is
\* accounted for: K is in attachedSessions or in inFlight.
C21_LiveSessionsAccounted ==
    \A c \in LiveCalls : calls[c].key \in attachedSessions \cup inFlight


====
